---------------------------- MODULE Spec2Model ----------------------------
(***************************************************************************)
(* folk-stream-mux (presenter/folk-stream-mux.c): N input FIFOs carrying   *)
(* JPEG frames, a control FIFO carrying text commands, one output stream   *)
(* paced at a target frame rate.                                           *)
(*                                                                         *)
(* Sizes are scaled down: READ_BUF_SIZE : MAX_FRAME_SIZE stays 2 : 1 as in *)
(* the source; times are in milliseconds of the monotonic clock.  Bytes    *)
(* are the three delimiter bytes 0xFF, 0xD8, 0xD9 and one byte (0x00) that *)
(* stands for every other value: the code compares bytes only against     *)
(* those three.  Offsets are 0-based as in the C code; TLA+ sequences are  *)
(* 1-based, so buf[pos] of the source is buf[pos + 1] here.                *)
(***************************************************************************)
EXTENDS Integers, Sequences, FiniteSets, TLC

\* ------------------------------------------------------------- constants
xFF == 255
xD8 == 216
xD9 == 217
x00 == 0
Byte == {x00, xD8, xD9, xFF}

MAX_INPUTS == 3
READ_BUF_SIZE == 10
MAX_FRAME_SIZE == 5
CTL_BUF_SIZE == 16

\* ---------------------------------------------------------------- bounds
\* longest buffer handed to last_jpeg on its own
MaxArgLen == 10
\* oldest age of a cached frame when frame selection is taken on its own
MaxAge == 5
\* last clock reading while a frame is fed byte by byte
FeedHorizon == 3
\* last clock reading of the whole program's runs
Horizon == 4
\* bytes returned by a read that returns less than the FIFO holds
ShortRead == 2
\* last clock reading of the runs that count the emitted frames
CadenceHorizon == 10
\* bytes a producer's FIFO holds when drain is taken on its own
PipeCap == 1

\* -------------------------------------------------------------- helpers
Take(s, k) == SubSeq(s, 1, k)
Drop(s, k) == SubSeq(s, k + 1, Len(s))
SeqsUpTo(S, n) == UNION {[1..k -> S] : k \in 0..n}
Max(S) == CHOOSE x \in S : \A y \in S : y <= x
Min(S) == CHOOSE x \in S : \A y \in S : x <= y

\* the NULL pointer returned by last_jpeg and choose_frame
NoFrame == [soi |-> -1, len |-> 0]

\* ------------------------------------------------- JPEG frame extraction
\* buf[pos] == 0xFF && buf[pos + 1] == 0xD8
IsSOI(buf, pos) == buf[pos + 1] = xFF /\ buf[pos + 2] = xD8
\* buf[j] == 0xFF && buf[j + 1] == 0xD9
IsEOI(buf, j) == buf[j + 1] = xFF /\ buf[j + 2] = xD9

\* a frame one byte under the limit is the largest one kept
FitsFrame_strict(flen) == flen < MAX_FRAME_SIZE
\* if (flen <= MAX_FRAME_SIZE)
FitsFrame(flen) == flen <= MAX_FRAME_SIZE

\* the first complete frame found is kept, later ones do not replace it
KeepBest_first(best, soi, flen) ==
    IF best.soi >= 0 THEN best
    ELSE IF FitsFrame(flen) THEN [soi |-> soi, len |-> flen] ELSE best
\* if (flen <= MAX_FRAME_SIZE) { best_soi = soi; best_len = flen; }
KeepBest(best, soi, flen) ==
    IF FitsFrame(flen) THEN [soi |-> soi, len |-> flen] ELSE best

\* the inner loop: the offset of the first EOI at or after j, -1 if none
RECURSIVE ScanEOI(_, _)
ScanEOI(buf, j) ==
    IF j + 1 < Len(buf)
    THEN IF IsEOI(buf, j) THEN j ELSE ScanEOI(buf, j + 1)
    ELSE -1

\* the outer loop, from offset pos with the best frame so far
RECURSIVE ScanSOI(_, _, _)
ScanSOI(buf, pos, best) ==
    IF pos + 1 < Len(buf)
    THEN IF IsSOI(buf, pos)
         THEN LET j == ScanEOI(buf, pos + 2) IN
              IF j >= 0
              THEN ScanSOI(buf, j + 2, KeepBest(best, pos, (j + 2) - pos))
              ELSE best
         ELSE ScanSOI(buf, pos + 1, best)
    ELSE best

\* [soi |-> offset of the frame in buf, len |-> its length], or NoFrame
last_jpeg(buf) == ScanSOI(buf, 0, NoFrame)


\* ------------------------------------------------------------ the state
VARIABLES
    \* configuration, fixed after option parsing
    num_inputs,     \* number of input FIFOs, 1..MAX_INPUTS
    testcard,       \* bytes of the testcard; << >> when NULL or of size 0
    \* selection state
    mode, selected,
    \* Input, per index: fd open?, read buffer, latest frame and its time
    fd, read_buf, frame, frame_time,
    \* control pipe
    ctl_fd, ctl_buf,
    \* main(): the running flag, position, locals of main, drain, write_stdout
    running, pc, last_out, revents, cur, space, wsrc, total, exit_status,
    \* the world: clock, expiry of the pending wait, FIFO contents, which
    \* FIFOs can be opened
    now, deadline, pipe, ctl_pipe, avail,
    \* bookkeeping: number of write_stdout calls so far
    emits,
    \* the heap: the buffers allocated and not freed
    heap,
    \* stdout: the bytes written since the top of the current iteration
    sent,
    \* stderr: "mux: stdout write failed, exiting" has been printed
    failed,
    \* argument and result of a function applied on its own
    arg, res

cfgv == <<num_inputs, testcard>>
selv == <<mode, selected>>
inpv == <<read_buf, frame, frame_time>>
fdv == <<fd, ctl_fd>>
locv == <<revents, cur, space, wsrc, total>>
argv == <<arg, res>>
auxv == <<heap, sent, failed>>
vars == <<num_inputs, testcard, mode, selected, fd, read_buf, frame,
          frame_time, ctl_fd, ctl_buf, running, pc, last_out, revents, cur,
          space, wsrc, total, exit_status, now, deadline, pipe, ctl_pipe,
          avail, emits, heap, sent, failed, arg, res>>

Inputs == 0..(num_inputs - 1)
\* map[fi] == -1: the control pipe's entry of the poll set
CTL == -1

\* One unit of the clock is 100 ms, and the program runs with -f 5 -T 300.
\* interval_ms = 1000 / target_fps
interval_ms == 2
\* -T: the staleness threshold
timeout_ms == 3
\* usleep(100000)
idle_sleep == 1
\* poll(&pfd, 1, 200)
pollout_ms == 2

\* ------------------------------------------------------- frame selection
elapsed_ms(a, b) == b - a

NullPtr == [kind |-> "null", idx |-> -1, len |-> 0]
InputPtr(i) == [kind |-> "input", idx |-> i, len |-> Len(frame[i])]
TestcardPtr == [kind |-> "testcard", idx |-> -1, len |-> Len(testcard)]

\* a frame aged exactly the threshold still counts as recent
IsRecent_le(i, t) ==
    Len(frame[i]) > 0 /\ elapsed_ms(frame_time[i], t) <= timeout_ms
\* inp->frame_size > 0 && elapsed_ms(&inp->frame_time, &now) < timeout_ms
IsRecent(i, t) ==
    Len(frame[i]) > 0 /\ elapsed_ms(frame_time[i], t) < timeout_ms

\* use_testcard:
use_testcard == IF Len(testcard) > 0 THEN TestcardPtr ELSE NullPtr

\* the scan runs from the lowest index up
RECURSIVE AutoScan_up(_, _)
AutoScan_up(i, t) ==
    LET j == (num_inputs - 1) - i IN
    IF i < 0 THEN use_testcard
    ELSE IF IsRecent(j, t) THEN InputPtr(j) ELSE AutoScan_up(i - 1, t)
\* for (int i = num_inputs - 1; i >= 0; i--)
RECURSIVE AutoScan(_, _)
AutoScan(i, t) ==
    IF i < 0 THEN use_testcard
    ELSE IF IsRecent(i, t) THEN InputPtr(i) ELSE AutoScan(i - 1, t)

\* a stale selected source falls through to the automatic scan
StaleSource_auto(t) == AutoScan(num_inputs - 1, t)
\* Selected source stale: goto use_testcard
StaleSource(t) == use_testcard

\* choose_frame with the mode and the selection given
choose_frame_in(m, s, t) ==
    IF m = "MODE_TESTCARD" THEN use_testcard
    ELSE IF m = "MODE_SOURCE" /\ s >= 0 /\ s < num_inputs
         THEN IF IsRecent(s, t) THEN InputPtr(s) ELSE StaleSource(t)
         ELSE AutoScan(num_inputs - 1, t)

choose_frame(t) == choose_frame_in(mode, selected, t)

\* the bytes a frame pointer points at
Deref(p) ==
    IF p.kind = "input" THEN frame[p.idx]
    ELSE IF p.kind = "testcard" THEN testcard ELSE << >>

\* --------------------------------------------------------- control pipe
\* A line is a sequence of characters, each a string of length one.  The
\* command source carries text: no NUL character occurs in it.
Digits == {"0", "1", "2", "3", "4", "5", "6", "7", "8", "9"}
DigitVal(c) ==
    CASE c = "0" -> 0 [] c = "1" -> 1 [] c = "2" -> 2 [] c = "3" -> 3
      [] c = "4" -> 4 [] c = "5" -> 5 [] c = "6" -> 6 [] c = "7" -> 7
      [] c = "8" -> 8 [] c = "9" -> 9
\* isspace() of the C locale, as atoi skips it
IsSpace(c) == c \in {" ", "\t", "\n", "\r", "\f"}

RECURSIVE SkipSpace(_)
SkipSpace(s) ==
    IF Len(s) > 0 /\ IsSpace(Head(s)) THEN SkipSpace(Tail(s)) ELSE s

RECURSIVE DigitsValue(_, _)
DigitsValue(s, acc) ==
    IF Len(s) > 0 /\ Head(s) \in Digits
    THEN DigitsValue(Tail(s), acc * 10 + DigitVal(Head(s)))
    ELSE acc

\* atoi(3): leading white space, an optional sign, then the digits up to
\* the first character that is not one; 0 when there is no digit.  Numbers
\* here have few digits: no overflow.
atoi(s) ==
    LET t == SkipSpace(s) IN
    IF Len(t) > 0 /\ Head(t) = "-" THEN 0 - DigitsValue(Tail(t), 0)
    ELSE IF Len(t) > 0 /\ Head(t) = "+" THEN DigitsValue(Tail(t), 0)
    ELSE DigitsValue(t, 0)

\* while (*line == ' ' || *line == '\t') line++;
RECURSIVE TrimLeft(_)
TrimLeft(s) ==
    IF Len(s) > 0 /\ Head(s) \in {" ", "\t"} THEN TrimLeft(Tail(s)) ELSE s

\* while (len > 0 && (line[len-1] == '\n' || '\r' || ' ')) line[--len] = 0
RECURSIVE TrimRight(_)
TrimRight(s) ==
    IF Len(s) > 0 /\ s[Len(s)] \in {"\n", "\r", " "}
    THEN TrimRight(Take(s, Len(s) - 1))
    ELSE s

\* strncmp(line, prefix, strlen(prefix)) == 0
HasPrefix(s, prefix) ==
    Len(s) >= Len(prefix) /\ Take(s, Len(prefix)) = prefix

S_source == <<"s", "o", "u", "r", "c", "e", " ">>
S_testcard == <<"t", "e", "s", "t", "c", "a", "r", "d">>
S_auto == <<"a", "u", "t", "o">>

\* the selection state after process_ctl_line(line), from state st
process_ctl_line(st, line) ==
    LET l == TrimRight(TrimLeft(line)) IN
    IF Len(l) = 0 THEN st
    ELSE IF HasPrefix(l, S_source)
         THEN LET n == atoi(Drop(l, 7)) IN
              IF n >= 0 /\ n < num_inputs
              THEN [mode |-> "MODE_SOURCE", selected |-> n]
              ELSE st
    ELSE IF l = S_testcard THEN [mode |-> "MODE_TESTCARD", selected |-> -1]
    ELSE IF l = S_auto THEN [mode |-> "MODE_AUTO", selected |-> -1]
    ELSE st

\* index of the first '\n' of s, 0 if none: strchr(start, '\n')
RECURSIVE FirstNL(_, _)
FirstNL(s, k) ==
    IF k > Len(s) THEN 0 ELSE IF s[k] = "\n" THEN k ELSE FirstNL(s, k + 1)

\* the while loop of drain_ctl over the complete lines of buf:
\* [st |-> the selection state after them, rest |-> the partial line kept]
RECURSIVE ProcessLines(_, _)
ProcessLines(st, buf) ==
    LET nl == FirstNL(buf, 1) IN
    IF nl = 0 THEN [st |-> st, rest |-> buf]
    ELSE ProcessLines(process_ctl_line(st, Take(buf, nl - 1)), Drop(buf, nl))

\* ------------------------------------------------------------- drain()
\* size_t half = READ_BUF_SIZE / 2
half == READ_BUF_SIZE \div 2

\* the oldest bytes are the ones kept
Evict_keep_old(buf) == Take(buf, Len(buf) - half)
\* memmove(read_buf, read_buf + half, read_used - half); read_used -= half
Evict(buf) == Drop(buf, half)

\* top of the for (;;) of drain: the free space, after making room
DrainTop ==
    /\ pc = "drain_top"
    /\ LET buf == IF Len(read_buf[cur]) = READ_BUF_SIZE
                  THEN Evict(read_buf[cur]) ELSE read_buf[cur] IN
       /\ read_buf' = [read_buf EXCEPT ![cur] = buf]
       /\ space' = READ_BUF_SIZE - Len(buf)
    /\ pc' = "drain_read"
    /\ UNCHANGED <<cfgv, auxv, selv, fdv, frame, frame_time, ctl_buf, running,
                   last_out, revents, cur, wsrc, total, exit_status, now,
                   deadline, pipe, ctl_pipe, avail, emits, argv>>

\* read(inp->fd, inp->read_buf + inp->read_used, space) returning n > 0
DrainRead(n) ==
    /\ pc = "drain_read"
    /\ n >= 1 /\ n <= space /\ n <= Len(pipe[cur])
    /\ read_buf' = [read_buf EXCEPT ![cur] = @ \o Take(pipe[cur], n)]
    /\ pipe' = [pipe EXCEPT ![cur] = Drop(@, n)]
    /\ pc' = "drain_top"
    /\ UNCHANGED <<cfgv, auxv, selv, fdv, frame, frame_time, ctl_buf, running,
                   last_out, locv, exit_status, now, deadline, ctl_pipe,
                   avail, emits, argv>>

\* read returning n <= 0 (nothing to read): break
DrainBreak ==
    /\ pc = "drain_read"
    /\ pipe[cur] = << >>
    /\ pc' = "drain_scan"
    /\ UNCHANGED <<cfgv, auxv, selv, fdv, inpv, ctl_buf, running, last_out,
                   locv, exit_status, now, deadline, pipe, ctl_pipe, avail,
                   emits, argv>>

\* the frame time is taken on every call, frame or no frame
Extract_restamp(buf, fr, ft, t) ==
    LET f == last_jpeg(buf) IN
    IF f.soi >= 0 /\ f.len > 0
    THEN [read_buf |-> Drop(buf, f.soi + f.len),
          frame |-> SubSeq(buf, f.soi + 1, f.soi + f.len),
          frame_time |-> t]
    ELSE [read_buf |-> buf, frame |-> fr, frame_time |-> t]
\* a scan that finds no frame drops the cached one
Extract_clear(buf, fr, ft, t) ==
    LET f == last_jpeg(buf) IN
    IF f.soi >= 0 /\ f.len > 0
    THEN [read_buf |-> Drop(buf, f.soi + f.len),
          frame |-> SubSeq(buf, f.soi + 1, f.soi + f.len),
          frame_time |-> t]
    ELSE [read_buf |-> buf, frame |-> << >>, frame_time |-> ft]
\* the Input after the lines 183-201 of drain, at time t:
\* [read_buf, frame, frame_time]
Extract(buf, fr, ft, t) ==
    LET f == last_jpeg(buf) IN
    IF Len(buf) = 0 THEN [read_buf |-> buf, frame |-> fr, frame_time |-> ft]
    ELSE IF f.soi >= 0 /\ f.len > 0
         THEN [read_buf |-> Drop(buf, f.soi + f.len),
               frame |-> SubSeq(buf, f.soi + 1, f.soi + f.len),
               frame_time |-> t]
         ELSE [read_buf |-> buf, frame |-> fr, frame_time |-> ft]

DrainScan ==
    /\ pc = "drain_scan"
    /\ LET r == Extract(read_buf[cur], frame[cur], frame_time[cur], now) IN
       /\ read_buf' = [read_buf EXCEPT ![cur] = r.read_buf]
       /\ frame' = [frame EXCEPT ![cur] = r.frame]
       /\ frame_time' = [frame_time EXCEPT ![cur] = r.frame_time]
    /\ pc' = "dispatch"
    /\ cur' = 0 /\ space' = 0
    /\ UNCHANGED <<cfgv, auxv, selv, fdv, ctl_buf, running, last_out, revents,
                   wsrc, total, exit_status, now, deadline, pipe, ctl_pipe,
                   avail, emits, argv>>

\* --------------------------------------------------------- drain_ctl()
CtlTop ==
    /\ pc = "ctl_top"
    /\ LET buf == IF CTL_BUF_SIZE - Len(ctl_buf) - 1 = 0
                  THEN << >> ELSE ctl_buf IN
       /\ ctl_buf' = buf
       /\ space' = CTL_BUF_SIZE - Len(buf) - 1
    /\ pc' = "ctl_read"
    /\ UNCHANGED <<cfgv, auxv, selv, fdv, inpv, running, last_out, revents,
                   cur, wsrc, total, exit_status, now, deadline, pipe,
                   ctl_pipe, avail, emits, argv>>

CtlRead(n) ==
    /\ pc = "ctl_read"
    /\ n >= 1 /\ n <= space /\ n <= Len(ctl_pipe)
    /\ ctl_buf' = ctl_buf \o Take(ctl_pipe, n)
    /\ ctl_pipe' = Drop(ctl_pipe, n)
    /\ pc' = "ctl_top"
    /\ UNCHANGED <<cfgv, auxv, selv, fdv, inpv, running, last_out, locv,
                   exit_status, now, deadline, pipe, avail, emits, argv>>

CtlBreak ==
    /\ pc = "ctl_read"
    /\ ctl_pipe = << >>
    /\ pc' = "ctl_lines"
    /\ UNCHANGED <<cfgv, auxv, selv, fdv, inpv, ctl_buf, running, last_out,
                   locv, exit_status, now, deadline, pipe, ctl_pipe, avail,
                   emits, argv>>

\* the lines are processed but the partial line is not kept
CtlLines_drop_tail ==
    /\ pc = "ctl_lines"
    /\ LET r == ProcessLines([mode |-> mode, selected |-> selected], ctl_buf)
       IN /\ mode' = r.st.mode
          /\ selected' = r.st.selected
          /\ ctl_buf' = << >>
    /\ pc' = "dispatch"
    /\ cur' = 0 /\ space' = 0
    /\ UNCHANGED <<cfgv, auxv, fdv, inpv, running, last_out, revents, wsrc,
                   total, exit_status, now, deadline, pipe, ctl_pipe, avail,
                   emits, argv>>

\* Process complete lines, keep any partial line
CtlLines ==
    /\ pc = "ctl_lines"
    /\ LET r == ProcessLines([mode |-> mode, selected |-> selected], ctl_buf)
       IN /\ mode' = r.st.mode
          /\ selected' = r.st.selected
          /\ ctl_buf' = r.rest
    /\ pc' = "dispatch"
    /\ cur' = 0 /\ space' = 0
    /\ UNCHANGED <<cfgv, auxv, fdv, inpv, running, last_out, revents, wsrc,
                   total, exit_status, now, deadline, pipe, ctl_pipe, avail,
                   emits, argv>>

\* -------------------------------------------------------------- main()
\* A local variable holds its initial value of the model again once its
\* function or block is left (cur, space, wsrc, total), and so does the
\* expiry of a wait that is over (deadline): none is read again before it
\* is set.
\* the fds after open_input on every input and open_ctl: an open one stays,
\* a closed one opens when its FIFO can be opened
Opened(i) == fd[i] \/ i \in avail
OpenedCtl == ctl_fd \/ CTL \in avail

\* while (running): (re)open the pipes, build the poll set, call poll
LoopPoll ==
    /\ pc = "loop" /\ running
    /\ (\E i \in Inputs : Opened(i)) \/ OpenedCtl
    /\ fd' = [i \in Inputs |-> Opened(i)]
    /\ ctl_fd' = OpenedCtl
    /\ deadline' = now + interval_ms
    /\ pc' = "poll"
    /\ sent' = << >>
    /\ UNCHANGED <<cfgv, heap, failed, selv, inpv, ctl_buf, running, last_out,
                   locv, exit_status, now, pipe, ctl_pipe, avail, emits,
                   argv>>

\* if (nfds == 0) { usleep(100000); continue; }
LoopIdle ==
    /\ pc = "loop" /\ running
    /\ ~((\E i \in Inputs : Opened(i)) \/ OpenedCtl)
    /\ deadline' = now + idle_sleep
    /\ pc' = "sleep"
    /\ sent' = << >>
    /\ UNCHANGED <<cfgv, heap, failed, selv, fdv, inpv, ctl_buf, running,
                   last_out, locv, exit_status, now, pipe, ctl_pipe, avail,
                   emits, argv>>

SleepReturn ==
    /\ pc = "sleep" /\ now >= deadline
    /\ pc' = "loop"
    /\ deadline' = 0
    /\ UNCHANGED <<cfgv, auxv, selv, fdv, inpv, ctl_buf, running, last_out,
                   locv, exit_status, now, pipe, ctl_pipe, avail, emits,
                   argv>>

\* the entries of the poll set that have POLLIN
Ready ==
    {i \in Inputs : fd[i] /\ pipe[i] # << >>}
        \cup (IF ctl_fd /\ ctl_pipe # << >> THEN {CTL} ELSE {})

\* poll(fds, nfds, interval_ms) returns: something is readable, or the
\* timeout has expired
PollReturn ==
    /\ pc = "poll"
    /\ Ready # {} \/ now >= deadline
    /\ revents' = Ready
    /\ pc' = "dispatch"
    /\ deadline' = 0
    /\ UNCHANGED <<cfgv, auxv, selv, fdv, inpv, ctl_buf, running, last_out,
                   cur, space, wsrc, total, exit_status, now, pipe, ctl_pipe,
                   avail, emits, argv>>

\* for (fi = 0; fi < nfds; fi++): the inputs in index order, then control
DispatchInput ==
    /\ pc = "dispatch"
    /\ revents \ {CTL} # {}
    /\ LET i == Min(revents \ {CTL}) IN
       /\ cur' = i
       /\ revents' = revents \ {i}
    /\ pc' = "drain_top"
    /\ UNCHANGED <<cfgv, auxv, selv, fdv, inpv, ctl_buf, running, last_out,
                   space, wsrc, total, exit_status, now, deadline, pipe,
                   ctl_pipe, avail, emits, argv>>

DispatchCtl ==
    /\ pc = "dispatch"
    /\ revents = {CTL}
    /\ cur' = CTL
    /\ revents' = {}
    /\ pc' = "ctl_top"
    /\ UNCHANGED <<cfgv, auxv, selv, fdv, inpv, ctl_buf, running, last_out,
                   space, wsrc, total, exit_status, now, deadline, pipe,
                   ctl_pipe, avail, emits, argv>>

DispatchDone ==
    /\ pc = "dispatch"
    /\ revents = {}
    /\ pc' = "output"
    /\ UNCHANGED <<cfgv, auxv, selv, fdv, inpv, ctl_buf, running, last_out,
                   locv, exit_status, now, deadline, pipe, ctl_pipe, avail,
                   emits, argv>>

\* last_out.tv_sec == 0 || elapsed_ms(&last_out, &now) >= interval_ms;
\* last_out is {0, 0} until the first tick, the clock reads 1 or more
Due == last_out = 0 \/ elapsed_ms(last_out, now) >= interval_ms

OutputSkip ==
    /\ pc = "output" /\ ~Due
    /\ pc' = "loop"
    /\ UNCHANGED <<cfgv, auxv, selv, fdv, inpv, ctl_buf, running, last_out,
                   locv, exit_status, now, deadline, pipe, ctl_pipe, avail,
                   emits, argv>>

\* the tick finds no frame: frame == NULL or flen == 0
OutputNone ==
    /\ pc = "output" /\ Due
    /\ choose_frame(now).len = 0
    /\ last_out' = now
    /\ wsrc' = choose_frame(now)
    /\ pc' = "loop"
    /\ UNCHANGED <<cfgv, auxv, selv, fdv, inpv, ctl_buf, running, revents,
                   cur, space, total, exit_status, now, deadline, pipe,
                   ctl_pipe, avail, emits, argv>>

\* the tick calls write_stdout(frame, flen)
OutputEmit ==
    /\ pc = "output" /\ Due
    /\ choose_frame(now).len > 0
    /\ last_out' = now
    /\ wsrc' = choose_frame(now)
    /\ total' = 0
    /\ emits' = emits + 1
    /\ pc' = "write"
    /\ UNCHANGED <<cfgv, auxv, selv, fdv, inpv, ctl_buf, running, revents,
                   cur, space, exit_status, now, deadline, pipe, ctl_pipe,
                   avail, argv>>

\* ------------------------------------------------------- write_stdout()
\* every write starts at the first byte of the frame again
WriteSome_restart(w) ==
    /\ pc = "write"
    /\ w >= 1 /\ w <= wsrc.len - total
    /\ total' = total + w
    /\ sent' = sent \o SubSeq(Deref(wsrc), 1, w)
    /\ UNCHANGED <<cfgv, heap, failed, selv, fdv, inpv, ctl_buf, running, pc,
                   last_out, revents, cur, space, wsrc, exit_status, now,
                   deadline, pipe, ctl_pipe, avail, emits, argv>>
\* write() takes w bytes
WriteSome(w) ==
    /\ pc = "write"
    /\ w >= 1 /\ w <= wsrc.len - total
    /\ total' = total + w
    /\ sent' = sent \o SubSeq(Deref(wsrc), total + 1, total + w)
    /\ UNCHANGED <<cfgv, heap, failed, selv, fdv, inpv, ctl_buf, running, pc,
                   last_out, revents, cur, space, wsrc, exit_status, now,
                   deadline, pipe, ctl_pipe, avail, emits, argv>>

\* while (total < len) is over: return 1
WriteDone ==
    /\ pc = "write"
    /\ total >= wsrc.len
    /\ pc' = "loop"
    /\ wsrc' = NullPtr /\ total' = 0
    /\ UNCHANGED <<cfgv, auxv, selv, fdv, inpv, ctl_buf, running, last_out,
                   revents, cur, space, exit_status, now, deadline, pipe,
                   ctl_pipe, avail, emits, argv>>

\* write() fails with EAGAIN: poll(&pfd, 1, 200)
WriteAgain ==
    /\ pc = "write"
    /\ total < wsrc.len
    /\ deadline' = now + pollout_ms
    /\ pc' = "wpoll"
    /\ UNCHANGED <<cfgv, auxv, selv, fdv, inpv, ctl_buf, running, last_out,
                   locv, exit_status, now, pipe, ctl_pipe, avail, emits,
                   argv>>

\* stdout becomes writable within the wait: continue
WPollReady ==
    /\ pc = "wpoll"
    /\ pc' = "write"
    /\ deadline' = 0
    /\ UNCHANGED <<cfgv, auxv, selv, fdv, inpv, ctl_buf, running, last_out,
                   locv, exit_status, now, pipe, ctl_pipe, avail, emits,
                   argv>>

\* the wait times out: return 0, and main clears running
WPollTimeout ==
    /\ pc = "wpoll" /\ now >= deadline
    /\ running' = FALSE
    /\ pc' = "loop"
    /\ deadline' = 0
    /\ wsrc' = NullPtr /\ total' = 0
    /\ failed' = TRUE
    /\ UNCHANGED <<cfgv, heap, sent, selv, fdv, inpv, ctl_buf, last_out,
                   revents, cur, space, exit_status, now, pipe, ctl_pipe,
                   avail, emits, argv>>

\* the wait is interrupted (poll returns -1 with EINTR, which is <= 0 too):
\* return 0, and main clears running
WPollInterrupted ==
    /\ pc = "wpoll"
    /\ running' = FALSE
    /\ pc' = "loop"
    /\ deadline' = 0
    /\ wsrc' = NullPtr /\ total' = 0
    /\ failed' = TRUE
    /\ UNCHANGED <<cfgv, heap, sent, selv, fdv, inpv, ctl_buf, last_out,
                   revents, cur, space, exit_status, now, pipe, ctl_pipe,
                   avail, emits, argv>>

\* the process returns to the loop without clearing running
WriteError_ignored ==
    /\ pc = "write"
    /\ total < wsrc.len
    /\ pc' = "loop"
    /\ wsrc' = NullPtr /\ total' = 0
    /\ UNCHANGED <<cfgv, auxv, selv, fdv, inpv, ctl_buf, running, last_out,
                   revents, cur, space, exit_status, now, deadline, pipe,
                   ctl_pipe, avail, emits, argv>>
\* write() fails otherwise, or returns 0: return 0, and main clears running
WriteError ==
    /\ pc = "write"
    /\ total < wsrc.len
    /\ running' = FALSE
    /\ pc' = "loop"
    /\ wsrc' = NullPtr /\ total' = 0
    /\ failed' = TRUE
    /\ UNCHANGED <<cfgv, heap, sent, selv, fdv, inpv, ctl_buf, last_out,
                   revents, cur, space, exit_status, now, deadline, pipe,
                   ctl_pipe, avail, emits, argv>>

\* the loop is left: close, free, return 0
Cleanup ==
    /\ pc = "loop" /\ ~running
    /\ fd' = [i \in Inputs |-> FALSE]
    /\ ctl_fd' = FALSE
    /\ heap' = {}
    /\ exit_status' = 0
    /\ pc' = "done"
    /\ UNCHANGED <<cfgv, sent, failed, selv, inpv, ctl_buf, running, last_out,
                   locv, now, deadline, pipe, ctl_pipe, avail, emits, argv>>

\* on_signal: SIGINT or SIGTERM arrives
Signal ==
    /\ pc # "done" /\ running
    /\ running' = FALSE
    /\ UNCHANGED <<cfgv, auxv, selv, fdv, inpv, ctl_buf, pc, last_out, locv,
                   exit_status, now, deadline, pipe, ctl_pipe, avail, emits,
                   argv>>

\* ---------------------------------------------------------- the world
\* a producer writes bytes into FIFO i, which holds at most cap bytes
Produce(i, bytes, cap) ==
    /\ pc # "done"
    /\ Len(pipe[i]) + Len(bytes) <= cap
    /\ pipe' = [pipe EXCEPT ![i] = @ \o bytes]
    /\ UNCHANGED <<cfgv, auxv, selv, fdv, inpv, ctl_buf, running, pc,
                   last_out, locv, exit_status, now, deadline, ctl_pipe,
                   avail, emits, argv>>

\* the command source writes characters into the control FIFO
Command(chars, cap) ==
    /\ pc # "done"
    /\ Len(ctl_pipe) + Len(chars) <= cap
    /\ ctl_pipe' = ctl_pipe \o chars
    /\ UNCHANGED <<cfgv, auxv, selv, fdv, inpv, ctl_buf, running, pc,
                   last_out, locv, exit_status, now, deadline, pipe, avail,
                   emits, argv>>

\* poll reports input i readable, rightly or not (poll interrupted by a
\* signal leaves revents unset), after the loop has come round
Wake(i) ==
    /\ pc = "dispatch" /\ revents = {}
    /\ revents' = {i}
    /\ UNCHANGED <<cfgv, auxv, selv, fdv, inpv, ctl_buf, running, pc,
                   last_out, cur, space, wsrc, total, exit_status, now,
                   deadline, pipe, ctl_pipe, avail, emits, argv>>

\* poll is interrupted by a signal (EINTR): revents is not set, the loop
\* reads whatever the array holds
PollInterrupted ==
    /\ pc = "poll"
    /\ revents' \in SUBSET ({i \in Inputs : fd[i]}
                                \cup (IF ctl_fd THEN {CTL} ELSE {}))
    /\ pc' = "dispatch"
    /\ deadline' = 0
    /\ UNCHANGED <<cfgv, auxv, selv, fdv, inpv, ctl_buf, running, last_out,
                   cur, space, wsrc, total, exit_status, now, pipe, ctl_pipe,
                   avail, emits, argv>>

\* the process is blocked in poll or usleep with nothing to wake it
Blocked ==
    \/ pc = "poll" /\ Ready = {} /\ now < deadline
    \/ pc = "sleep" /\ now < deadline
    \/ pc = "wpoll" /\ now < deadline

\* time passes while the process is blocked, up to the horizon h
Tick(h) ==
    /\ Blocked /\ now < h
    /\ now' = now + 1
    /\ UNCHANGED <<cfgv, auxv, selv, fdv, inpv, ctl_buf, running, pc,
                   last_out, locv, exit_status, deadline, pipe, ctl_pipe,
                   avail, emits, argv>>

\* the producer of input i writes the next byte of the frame it is sending
\* (arg holds the bytes still to send) once the loop has come round, and poll
\* reports the input readable
FeedByte(i) ==
    /\ pc = "dispatch" /\ revents = {}
    /\ arg # << >> /\ pipe[i] = << >>
    /\ pipe' = [pipe EXCEPT ![i] = <<Head(arg)>>]
    /\ arg' = Tail(arg)
    /\ revents' = {i}
    /\ UNCHANGED <<cfgv, auxv, selv, fdv, inpv, ctl_buf, running, pc,
                   last_out, cur, space, wsrc, total, exit_status, now,
                   deadline, ctl_pipe, avail, emits, res>>

\* time passes while the process computes
Elapse(h) ==
    /\ ~Blocked /\ pc # "done" /\ now < h
    /\ now' = now + 1
    /\ UNCHANGED <<cfgv, auxv, selv, fdv, inpv, ctl_buf, running, pc,
                   last_out, locv, exit_status, deadline, pipe, ctl_pipe,
                   avail, emits, argv>>

\* ------------------------------------------------------ specifications
\* a frame as an input caches it
SomeFrame == <<xFF, xD8, xFF, xD9>>
\* the testcard file: none, or one frame (of any size)
Testcards == {<< >>, <<xFF, xD8, x00, x00, x00, xFF, xD9>>}

\* the buffers main has allocated when it reaches its loop: calloc of each
\* input's read_buf and frame, malloc of the testcard when one is loaded
Allocated(n, tc) ==
    {<<"read_buf", i>> : i \in 0..(n - 1)}
        \cup {<<"frame", i>> : i \in 0..(n - 1)}
        \cup (IF tc # << >> THEN {<<"testcard", -1>>} ELSE {})

\* the state when main reaches its loop (pc apart), with n inputs, testcard
\* tc, the clock reading t0 and the FIFOs in av openable
Start(n, tc, t0, av) ==
    /\ num_inputs = n
    /\ testcard = tc
    /\ mode = "MODE_AUTO"
    /\ selected = -1
    /\ fd = [i \in 0..(n - 1) |-> FALSE]
    /\ read_buf = [i \in 0..(n - 1) |-> << >>]
    /\ frame = [i \in 0..(n - 1) |-> << >>]
    /\ frame_time = [i \in 0..(n - 1) |-> 0]
    /\ ctl_fd = FALSE
    /\ ctl_buf = << >>
    /\ running = TRUE
    /\ last_out = 0
    /\ revents = {}
    /\ cur = 0
    /\ space = 0
    /\ wsrc = NullPtr
    /\ total = 0
    /\ exit_status = -1
    /\ now = t0
    /\ deadline = 0
    /\ pipe = [i \in 0..(n - 1) |-> << >>]
    /\ ctl_pipe = << >>
    /\ avail = av
    /\ emits = 0
    /\ heap = Allocated(n, tc)
    /\ sent = << >>
    /\ failed = FALSE

\* ---- last_jpeg on its own: every buffer of at most MaxArgLen bytes
InitJpeg ==
    /\ Start(1, << >>, 1, {0, CTL})
    /\ arg = << >>
    /\ res = NoFrame
    /\ pc = "call"

\* the buffer handed over is one byte longer
GrowArg(b) ==
    /\ pc = "call"
    /\ Len(arg) < MaxArgLen
    /\ arg' = Append(arg, b)
    /\ UNCHANGED <<cfgv, auxv, selv, fdv, inpv, ctl_buf, running, pc,
                   last_out, locv, exit_status, now, deadline, pipe, ctl_pipe,
                   avail, emits, res>>

\* uint8_t *frame = last_jpeg(buf, buflen, &flen)
ApplyLastJpeg ==
    /\ pc = "call"
    /\ res' = last_jpeg(arg)
    /\ pc' = "ret"
    /\ UNCHANGED <<cfgv, auxv, selv, fdv, inpv, ctl_buf, running, last_out,
                   locv, exit_status, now, deadline, pipe, ctl_pipe, avail,
                   emits, arg>>

NextJpeg ==
    \/ \E b \in Byte : GrowArg(b)
    \/ ApplyLastJpeg

SpecJpeg == InitJpeg /\ [][NextJpeg]_vars

\* ------------------------------------------------------------------ C4
\* The regions of the left-to-right scan, stated without the scan's loops:
\* from offset c, the region starts at the least offset >= c holding a
\* start delimiter and ends with the first end delimiter that begins two
\* or more bytes later; the next region is sought after its end.
SOIsFrom(buf, c) == {p \in c..(Len(buf) - 2) : IsSOI(buf, p)}
EOIsFrom(buf, c) == {j \in c..(Len(buf) - 2) : IsEOI(buf, j)}

RECURSIVE RegionsFrom(_, _)
RegionsFrom(buf, c) ==
    IF SOIsFrom(buf, c) = {} THEN {}
    ELSE LET s == Min(SOIsFrom(buf, c)) IN
         IF EOIsFrom(buf, s + 2) = {} THEN {}
         ELSE LET e == Min(EOIsFrom(buf, s + 2)) IN
              {[soi |-> s, len |-> (e + 2) - s]} \cup RegionsFrom(buf, e + 2)

Regions(buf) == RegionsFrom(buf, 0)
BoundedRegions(buf) == {r \in Regions(buf) : r.len <= MAX_FRAME_SIZE}

\* the last region within the bound, NoFrame when there is none
LastBoundedRegion(buf) ==
    IF BoundedRegions(buf) = {} THEN NoFrame
    ELSE CHOOSE r \in BoundedRegions(buf) :
             \A q \in BoundedRegions(buf) : q.soi <= r.soi

\* C4: for every buffer, last_jpeg returns the offset and the length of
\* the last complete start..end region of the left-to-right scan whose
\* length is at most MAX_FRAME_SIZE: never an earlier one when a later one
\* within the bound exists, an oversized region is skipped and the scan
\* goes on after it, and the result is none when no region qualifies.
C4_LastJpeg ==
    pc = "ret" =>
        /\ res = LastBoundedRegion(arg)
        /\ res # NoFrame =>
              /\ IsSOI(arg, res.soi)
              /\ IsEOI(arg, res.soi + res.len - 2)
              /\ res.len <= MAX_FRAME_SIZE
              /\ \A q \in BoundedRegions(arg) : q.soi <= res.soi
        /\ res = NoFrame <=> BoundedRegions(arg) = {}

\* an oversized region is followed by a region within the bound, which is
\* the one returned
C4_Witness ==
    /\ pc = "ret"
    /\ res # NoFrame
    /\ \E big \in Regions(arg) : big.len > MAX_FRAME_SIZE /\ big.soi < res.soi

\* ---- choose_frame on its own: every number of inputs, every combination
\* of cached frames and ages, every selection state, at an output tick

InitSelect ==
    \E n \in 1..MAX_INPUTS :
        /\ num_inputs = n
        /\ testcard \in Testcards
        /\ now = MaxAge + 1
        /\ frame \in [0..(n - 1) -> {<< >>, SomeFrame}]
        /\ frame_time \in [0..(n - 1) -> 0..now]
        /\ \A i \in 0..(n - 1) : frame[i] = << >> <=> frame_time[i] = 0
        /\ \/ mode \in {"MODE_AUTO", "MODE_TESTCARD"} /\ selected = -1
           \/ mode = "MODE_SOURCE" /\ selected \in 0..(n - 1)
        /\ fd = [i \in 0..(n - 1) |-> TRUE]
        /\ read_buf = [i \in 0..(n - 1) |-> << >>]
        /\ pipe = [i \in 0..(n - 1) |-> << >>]
        /\ ctl_fd = TRUE /\ ctl_buf = << >> /\ ctl_pipe = << >>
        /\ running = TRUE /\ pc = "output" /\ last_out = 0
        /\ revents = {} /\ cur = 0 /\ space = 0 /\ wsrc = NullPtr
        /\ total = 0 /\ exit_status = -1 /\ deadline = now
        /\ avail = {} /\ emits = 0 /\ arg = << >> /\ res = NoFrame
        /\ heap = Allocated(num_inputs, testcard)
        /\ sent = << >> /\ failed = FALSE

NextSelect ==
    \/ OutputEmit
    \/ OutputNone

SpecSelect == InitSelect /\ [][NextSelect]_vars

\* the output tick has been taken
Ticked == last_out # 0

\* an input's cached frame is present and its age is under the threshold
Fresh(i) == Len(frame[i]) > 0 /\ now - frame_time[i] < timeout_ms
\* the fallback frame, or nothing when none is loaded
Fallback == IF Len(testcard) > 0 THEN TestcardPtr ELSE NullPtr

\* ------------------------------------------------------------------ C1
\* C1: in Auto mode, for every number of inputs and every combination of
\* cached frames and ages, choose_frame returns the cached frame of the
\* highest-index input whose frame is present and fresh, the fallback (or
\* nothing) when no input qualifies, and never a lower-index input's frame
\* while a higher-index input is fresh.
C1_AutoHighestFresh ==
    (Ticked /\ mode = "MODE_AUTO") =>
        LET Q == {i \in Inputs : Fresh(i)} IN
        /\ Q # {} => wsrc = InputPtr(Max(Q))
        /\ Q = {} => wsrc = Fallback
        /\ \A i \in Inputs :
              (wsrc.kind = "input" /\ wsrc.idx < i) => ~Fresh(i)

\* a fresh input below and a stale cached frame above the one returned
C1_Witness ==
    /\ Ticked /\ mode = "MODE_AUTO"
    /\ wsrc.kind = "input"
    /\ \E i \in Inputs : i < wsrc.idx /\ Fresh(i)
    /\ \E k \in Inputs : k > wsrc.idx /\ Len(frame[k]) > 0 /\ ~Fresh(k)

\* ------------------------------------------------------------------ C3
\* C3: a cached frame is stale exactly when now - capture_time >= threshold
\* and fresh exactly when it is less (an age equal to the threshold is
\* stale), an input that never captured a frame is stale at every time,
\* and Fixed and Auto resolution use the same rule.
C3_StaleBoundary ==
    \A i \in Inputs :
        LET age == now - frame_time[i]
            stale == Len(frame[i]) = 0 \/ age >= timeout_ms
            fixed == choose_frame_in("MODE_SOURCE", i, now)
            auto == choose_frame_in("MODE_AUTO", -1, now)
        IN  /\ stale <=> fixed # InputPtr(i)
            /\ stale => fixed = Fallback
            /\ stale => auto # InputPtr(i)
            /\ ~stale => (auto.kind = "input" /\ auto.idx >= i)
            /\ (Ticked /\ mode = "MODE_SOURCE" /\ selected = i) => wsrc = fixed
            /\ (Ticked /\ mode = "MODE_AUTO") => wsrc = auto

\* a tick in Fixed(i) with a cached frame aged exactly the threshold, and a
\* never-captured input beside it
C3_Witness ==
    /\ Ticked /\ mode = "MODE_SOURCE"
    /\ Len(frame[selected]) > 0
    /\ now - frame_time[selected] = timeout_ms
    /\ wsrc.kind # "input"
    /\ \E j \in Inputs : Len(frame[j]) = 0

\* ---- drain on its own: one input, every byte stream, every split of it
\* into reads and into calls of drain, with and without new bytes
\* the bytes of the stream: the delimiter bytes, which are also the payload
DrainBytes == {xD8, xD9, xFF}

\* main is between two calls of drain, the buffer is empty, and a frame was
\* cached one clock unit ago or never; the clock stands still from here
InitDrain ==
    /\ num_inputs = 1
    /\ testcard = << >>
    /\ mode = "MODE_AUTO" /\ selected = -1
    /\ fd = [i \in {0} |-> TRUE]
    /\ read_buf = [i \in {0} |-> << >>]
    /\ \/ frame = [i \in {0} |-> << >>] /\ frame_time = [i \in {0} |-> 0]
       \/ frame = [i \in {0} |-> SomeFrame] /\ frame_time = [i \in {0} |-> 1]
    /\ now = 2
    /\ pipe = [i \in {0} |-> << >>]
    /\ ctl_fd = FALSE /\ ctl_buf = << >> /\ ctl_pipe = << >>
    /\ running = TRUE /\ pc = "dispatch" /\ last_out = 0
    /\ revents = {} /\ cur = 0 /\ space = 0 /\ wsrc = NullPtr
    /\ total = 0 /\ exit_status = -1 /\ deadline = 0
    /\ avail = {0} /\ emits = 0 /\ arg = << >> /\ res = NoFrame
    /\ heap = Allocated(num_inputs, testcard)
    /\ sent = << >> /\ failed = FALSE

NextDrain ==
    \/ \E b \in DrainBytes : Produce(0, <<b>>, PipeCap)
    \/ Wake(0)
    \/ DispatchInput
    \/ DrainTop
    \/ \E n \in 1..PipeCap : DrainRead(n)
    \/ DrainBreak
    \/ DrainScan

SpecDrain == InitDrain /\ [][NextDrain]_vars

\* ------------------------------------------------------------------ C5
\* a start delimiter is in the buffer, and no start delimiter of the buffer
\* has an end delimiter after it: an incomplete frame, no complete one
PartialOnly(buf) ==
    /\ SOIsFrom(buf, 0) # {}
    /\ \A q \in SOIsFrom(buf, 0) : EOIsFrom(buf, q + 2) = {}

\* a step that takes no byte out of the input's FIFO
ReadsNothing(i) == Len(pipe'[i]) >= Len(pipe[i])

\* C5: when the accumulation buffer holds a start delimiter with no end
\* delimiter after it and no complete frame, extraction reports none found,
\* and a drain that reads no new bytes leaves the buffer, the cached frame
\* and its timestamp unchanged, however often it is repeated.  The buffer
\* is not full when drain is called, so none of the steps of such a call
\* (the top of its loop, the empty read, the extraction) changes the Input.
C5_PartialIdempotent ==
    /\ [](\A i \in Inputs :
            /\ PartialOnly(read_buf[i]) => last_jpeg(read_buf[i]) = NoFrame
            /\ pc = "dispatch" => Len(read_buf[i]) < READ_BUF_SIZE)
    /\ [][\A i \in Inputs :
            (/\ PartialOnly(read_buf[i])
             /\ Len(read_buf[i]) < READ_BUF_SIZE
             /\ ReadsNothing(i))
            => /\ read_buf'[i] = read_buf[i]
               /\ frame'[i] = frame[i]
               /\ frame_time'[i] = frame_time[i]]_vars

\* drain is at its extraction after a read that found nothing, the buffer
\* holds an incomplete frame only, and a frame was cached some time ago
C5_Witness ==
    /\ pc = "drain_scan"
    /\ PartialOnly(read_buf[cur])
    /\ space = READ_BUF_SIZE - Len(read_buf[cur])
    /\ Len(frame[cur]) > 0
    /\ now > frame_time[cur]

\* ------------------------------------------------------------------ C7
\* C7: an input's accumulation length never exceeds the buffer capacity,
\* every read is issued with a positive amount of free space inside the
\* buffer, and every step leaves in the buffer a suffix of what it held
\* followed by the bytes just read: the contents are always a contiguous
\* suffix of the bytes received so far, and an eviction keeps the newest
\* byte.
C7_BoundedSuffix ==
    /\ [](\A i \in Inputs :
            /\ Len(read_buf[i]) <= READ_BUF_SIZE
            /\ (pc = "drain_read" /\ cur = i) =>
                  (space >= 1 /\ Len(read_buf[i]) + space <= READ_BUF_SIZE))
    /\ [][\A i \in Inputs :
            LET got == IF Len(pipe'[i]) < Len(pipe[i])
                       THEN Take(pipe[i], Len(pipe[i]) - Len(pipe'[i]))
                       ELSE << >>
            IN  /\ \E k \in 0..Len(read_buf[i]) :
                      read_buf'[i] = Drop(read_buf[i], k) \o got
                /\ (pc = "drain_top" /\ read_buf'[i] # read_buf[i]) =>
                      /\ Len(read_buf'[i]) >= 1
                      /\ read_buf'[i][Len(read_buf'[i])]
                            = read_buf[i][Len(read_buf[i])]]_vars

\* the buffer is full at the top of drain's loop: room has to be made
C7_Witness ==
    /\ pc = "drain_top"
    /\ Len(read_buf[cur]) = READ_BUF_SIZE
    /\ pipe[cur] # << >>

\* ---- a frame of exactly MAX_FRAME_SIZE bytes sent one byte per call of
\* drain, with calls that find no new byte and time passing in between
\* the well-delimited frames of that size: a start delimiter first, and the
\* first end delimiter after it is the last two bytes
MaxFrames ==
    {f \in [1..MAX_FRAME_SIZE -> Byte] :
        IsSOI(f, 0) /\ EOIsFrom(f, 2) = {MAX_FRAME_SIZE - 2}}

InitFeed ==
    /\ Start(1, << >>, 1, {0})
    /\ pc = "dispatch"
    /\ arg \in MaxFrames
    /\ res = NoFrame

NextFeed ==
    \/ FeedByte(0)
    \/ Wake(0)
    \/ DispatchInput
    \/ DrainTop
    \/ DrainRead(1)
    \/ DrainBreak
    \/ DrainScan
    \/ Elapse(FeedHorizon)

SpecFeed == InitFeed /\ [][NextFeed]_vars

\* ------------------------------------------------------------------ C6
\* the bytes of the frame not yet read by drain
Unread == pipe[0] \o arg

\* C6: from an empty accumulation buffer, a well-delimited frame of exactly
\* the maximum size delivered one byte per call of drain is captured by no
\* drain before the one that reads its last byte, is captured whole by that
\* one (the cached bytes are the frame, the cached size is the maximum, the
\* time is set, the accumulation buffer is empty afterwards), and no later
\* drain captures it again.
C6_MaxFrameByteByByte ==
    /\ [](/\ frame[0] = << >> =>
                (read_buf[0] \o Unread \in MaxFrames /\ frame_time[0] = 0)
          /\ Unread # << >> => frame[0] = << >>
          /\ (Unread = << >> /\ pc = "dispatch") =>
                /\ frame[0] \in MaxFrames
                /\ Len(frame[0]) = MAX_FRAME_SIZE
                /\ frame_time[0] >= 1
                /\ read_buf[0] = << >>)
    /\ [][/\ (frame[0] = << >> /\ frame'[0] # << >>) =>
                /\ Unread = << >>
                /\ frame'[0] = read_buf[0]
                /\ frame_time'[0] = now
                /\ read_buf'[0] = << >>
          /\ frame[0] # << >> =>
                (frame'[0] = frame[0] /\ frame_time'[0] = frame_time[0]
                 /\ read_buf'[0] = << >>)]_vars

\* the frame is cached, and a later call of drain that had nothing to read
\* is at its end, some time after the capture
C6_Witness ==
    /\ frame[0] \in MaxFrames
    /\ pc = "drain_scan"
    /\ now > frame_time[0]

\* ---- process_ctl_line on its own: drain_ctl has read one line and its
\* newline, in every selection state
\* white space around a command: up to two characters before and after
PadChars == {" ", "\t", "\r"}
Pads == SeqsUpTo(PadChars, 2)
Cores ==
    {<<"a", "u", "t", "o">>,
     <<"t", "e", "s", "t", "c", "a", "r", "d">>,
     <<"s", "o", "u", "r", "c", "e", " ", "0">>,
     <<"s", "o", "u", "r", "c", "e", " ", "1">>,
     <<"s", "o", "u", "r", "c", "e", " ", "2">>,
     <<"s", "o", "u", "r", "c", "e", " ", "3">>,
     <<"s", "o", "u", "r", "c", "e", " ", "1", "2">>,
     <<"s", "o", "u", "r", "c", "e", " ", "x">>,
     <<"s", "o", "u", "r", "c", "e", " ", "1", "x">>,
     <<"s", "o", "u", "r", "c", "e">>,
     <<"s", "o", "u", "r", "c", "e", " ", "-", "1">>,
     <<"s", "o", "u", "r", "c", "e", " ", "+", "1">>,
     <<"s", "o", "u", "r", "c", "e", " ", " ", "1">>,
     <<"b", "o", "g", "u", "s">>,
     <<"A", "u", "t", "o">>,
     <<"a", "u", "t", "o", "x">>,
     <<"a", " ", "u", "t", "o">>,
     <<"T", "E", "S", "T", "C", "A", "R", "D">>,
     <<"t", "e", "s", "t", "c", "a", "r", "d", " ", "1">>,
     <<"s", "a", "u", "c", "e", " ", "1">>,
     << >>}
\* the lines that fit the control buffer with their newline and terminator
Lines ==
    {l \in {pre \o core \o post : pre \in Pads, core \in Cores, post \in Pads} :
        Len(l) + 2 <= CTL_BUF_SIZE}

InitCtlLine ==
    \E n \in 1..MAX_INPUTS, l \in Lines :
        /\ num_inputs = n
        /\ testcard = << >>
        /\ \/ mode \in {"MODE_AUTO", "MODE_TESTCARD"} /\ selected = -1
           \/ mode = "MODE_SOURCE" /\ selected \in 0..(n - 1)
        /\ fd = [i \in 0..(n - 1) |-> TRUE]
        /\ read_buf = [i \in 0..(n - 1) |-> << >>]
        /\ frame = [i \in 0..(n - 1) |-> << >>]
        /\ frame_time = [i \in 0..(n - 1) |-> 0]
        /\ pipe = [i \in 0..(n - 1) |-> << >>]
        /\ ctl_fd = TRUE /\ ctl_buf = l \o <<"\n">> /\ ctl_pipe = << >>
        /\ running = TRUE /\ pc = "ctl_lines" /\ last_out = 0
        /\ revents = {} /\ cur = CTL /\ space = 0 /\ wsrc = NullPtr
        /\ total = 0 /\ exit_status = -1 /\ now = 1 /\ deadline = 0
        /\ avail = {} /\ emits = 0 /\ arg = l /\ res = NoFrame
        /\ heap = Allocated(num_inputs, testcard)
        /\ sent = << >> /\ failed = FALSE

NextCtlLine == CtlLines

SpecCtlLine == InitCtlLine /\ [][NextCtlLine]_vars

\* ------------------------------------------------------------ C8, C9
\* white space as the claims take it
WhiteSpace == {" ", "\t", "\r", "\n"}

RECURSIVE StripLeft(_)
StripLeft(s) ==
    IF Len(s) > 0 /\ Head(s) \in WhiteSpace THEN StripLeft(Tail(s)) ELSE s
RECURSIVE StripRight(_)
StripRight(s) ==
    IF Len(s) > 0 /\ s[Len(s)] \in WhiteSpace
    THEN StripRight(Take(s, Len(s) - 1)) ELSE s
Strip(s) == StripRight(StripLeft(s))

\* an integer: digits, after an optional sign
IsInt(a) ==
    LET d == IF Len(a) > 0 /\ Head(a) \in {"+", "-"} THEN Tail(a) ELSE a IN
    Len(d) > 0 /\ \A k \in 1..Len(d) : d[k] \in Digits
IntOf(a) ==
    IF Head(a) = "-" THEN 0 - DigitsValue(Tail(a), 0)
    ELSE IF Head(a) = "+" THEN DigitsValue(Tail(a), 0)
    ELSE DigitsValue(a, 0)

\* the selection state a line asks for, NoCommand when it is not exactly
\* `source <int>` with the integer in [0, N), `testcard` or `auto` after
\* trimming
NoCommand == [mode |-> "none", selected |-> -1]
CommandOf(line) ==
    LET t == Strip(line) IN
    IF t = S_auto THEN [mode |-> "MODE_AUTO", selected |-> -1]
    ELSE IF t = S_testcard THEN [mode |-> "MODE_TESTCARD", selected |-> -1]
    ELSE IF /\ HasPrefix(t, S_source)
            /\ IsInt(Drop(t, 7))
            /\ IntOf(Drop(t, 7)) >= 0
            /\ IntOf(Drop(t, 7)) < num_inputs
         THEN [mode |-> "MODE_SOURCE", selected |-> IntOf(Drop(t, 7))]
    ELSE NoCommand

\* C8: processing a control line that, after trimming, is not exactly
\* `source <int>` with the integer in [0, N), `testcard` or `auto` leaves
\* the mode and the selected index unchanged.
C8_MalformedIgnored ==
    [][(pc = "ctl_lines" /\ CommandOf(arg) = NoCommand) =>
            (mode' = mode /\ selected' = selected)]_vars

\* C9: a valid command surrounded by any leading and trailing white space
\* (spaces, tabs, carriage return) and ended by a newline produces exactly
\* its transition: Fixed(i), Fallback or Auto.
C9_PaddedCommand ==
    [][(pc = "ctl_lines" /\ CommandOf(arg) # NoCommand) =>
            (mode' = CommandOf(arg).mode
             /\ selected' = CommandOf(arg).selected)]_vars

\* ---- the whole program: two inputs whose producers write whole frames,
\* a command source that writes whole lines, a consumer that takes, delays
\* or refuses the bytes, signals, and time passing while the program waits
\* the frame the producer of input i writes
FrameOf(i) ==
    IF i = 0 THEN <<xFF, xD8, x00, xFF, xD9>> ELSE <<xFF, xD8, xFF, xD9>>

NL == <<"\n">>
CommandLines ==
    {S_auto \o NL, S_testcard \o NL, S_source \o <<"0">> \o NL,
     S_source \o <<"1">> \o NL, S_source \o <<"2">> \o NL}

Init ==
    /\ \E tc \in Testcards : Start(2, tc, 1, {0, 1, CTL})
    /\ pc = "loop"
    /\ arg = << >> /\ res = NoFrame

Next ==
    \/ LoopPoll
    \/ PollReturn
    \/ PollInterrupted
    \/ DispatchInput
    \/ DispatchCtl
    \/ DispatchDone
    \/ DrainTop
    \/ pc = "drain_read" /\ \E n \in {ShortRead, Len(pipe[cur])} : DrainRead(n)
    \/ DrainBreak
    \/ DrainScan
    \/ CtlTop
    \/ pc = "ctl_read" /\ \E n \in {ShortRead, Len(ctl_pipe)} : CtlRead(n)
    \/ CtlBreak
    \/ CtlLines
    \/ OutputSkip
    \/ OutputNone
    \/ OutputEmit
    \/ \E w \in 1..Len(Deref(wsrc)) : WriteSome(w)
    \/ WriteDone
    \/ WriteAgain
    \/ WPollReady
    \/ WPollTimeout
    \/ WPollInterrupted
    \/ WriteError
    \/ Cleanup
    \/ Signal
    \/ \E i \in Inputs : pc = "poll" /\ Produce(i, FrameOf(i), MAX_FRAME_SIZE)
    \/ \E l \in CommandLines : pc = "poll" /\ Command(l, Len(S_testcard \o NL))
    \/ Tick(Horizon)

Spec == Init /\ [][Next]_vars

\* ------------------------------------------------------------------ C2
\* C2: in every reachable state whose selection is Fixed(i), i is an input
\* of the program, choose_frame returns input i's cached frame when it is
\* present and fresh and the fallback (or nothing) otherwise, and the frame
\* being written since the last output tick is one of those two: never the
\* frame of an input j # i, even when j is fresh.
C2_FixedNeverOther ==
    mode = "MODE_SOURCE" =>
        /\ selected \in Inputs
        /\ choose_frame(now) =
               IF Fresh(selected) THEN InputPtr(selected) ELSE Fallback
        /\ \A j \in Inputs \ {selected} : choose_frame(now) # InputPtr(j)
        /\ pc \in {"write", "wpoll"} =>
               /\ wsrc \in {InputPtr(selected), Fallback}
               /\ \A j \in Inputs \ {selected} : wsrc.idx # j

\* an output tick in Fixed(i) with a stale cached frame at i while another
\* input is fresh: the testcard is being written
C2_Witness ==
    /\ mode = "MODE_SOURCE"
    /\ pc = "write"
    /\ wsrc = TestcardPtr
    /\ Len(frame[selected]) > 0 /\ ~Fresh(selected)
    /\ \E j \in Inputs \ {selected} : Fresh(j)

\* ============================================================== cadence
\* The main loop with one input, a loaded testcard (so that choose_frame
\* always has a frame to return) and a stdout that takes every frame at
\* once.  The producer writes bytes that belong to no frame and the command
\* source writes empty lines: both only wake the loop.
InitCadence ==
    /\ Start(1, <<xFF, xD8, x00, x00, x00, xFF, xD9>>, 1, {0, CTL})
    /\ pc = "loop"
    /\ arg = << >> /\ res = NoFrame

NextCadence ==
    \/ LoopPoll
    \/ PollReturn
    \/ DispatchInput
    \/ DispatchCtl
    \/ DispatchDone
    \/ DrainTop
    \/ DrainRead(1)
    \/ DrainBreak
    \/ DrainScan
    \/ CtlTop
    \/ CtlRead(1)
    \/ CtlBreak
    \/ CtlLines
    \/ OutputSkip
    \/ OutputEmit
    \/ WriteSome(wsrc.len)
    \/ WriteDone
    \/ pc = "poll" /\ Produce(0, <<x00>>, 1)
    \/ pc = "poll" /\ Command(NL, 1)
    \/ Tick(CadenceHorizon)

SpecCadence == InitCadence /\ [][NextCadence]_vars

\* ------------------------------------------------------------------ C10
\* C10: with a frame always available, whenever the loop waits in poll (the
\* only place where time passes) the number of emit calls made so far is
\* within one frame of the elapsed time divided by the output interval,
\* whatever the pattern of input and command wake-ups.  The run starts at
\* clock reading 1.
C10_EmitCadence ==
    LET D == now - 1 IN
    (pc = "poll" /\ Blocked) =>
        /\ (emits - 1) * interval_ms <= D
        /\ D <= (emits + 1) * interval_ms

\* ============================================================ idle loop
\* The main loop with one input and a loaded testcard, where a FIFO may not
\* be openable when the loop starts and become so later.  Stdout takes every
\* frame at once.
\* last clock reading of these runs
IdleHorizon == 6

\* the FIFO of x (an input, or CTL) becomes openable: open() succeeds from
\* now on
Appear(x) ==
    /\ pc # "done"
    /\ x \notin avail
    /\ avail' = avail \cup {x}
    /\ UNCHANGED <<cfgv, auxv, selv, fdv, inpv, ctl_buf, running, pc,
                   last_out, locv, exit_status, now, deadline, pipe, ctl_pipe,
                   emits, argv>>

InitIdle ==
    /\ \E av \in SUBSET {0, CTL} :
           Start(1, <<xFF, xD8, x00, x00, x00, xFF, xD9>>, 1, av)
    /\ pc = "loop"
    /\ arg = << >> /\ res = NoFrame

NextIdle ==
    \/ LoopPoll
    \/ LoopIdle
    \/ SleepReturn
    \/ PollReturn
    \/ DispatchInput
    \/ DispatchCtl
    \/ DispatchDone
    \/ DrainTop
    \/ DrainRead(1)
    \/ DrainBreak
    \/ DrainScan
    \/ CtlTop
    \/ CtlRead(1)
    \/ CtlBreak
    \/ CtlLines
    \/ OutputSkip
    \/ OutputEmit
    \/ WriteSome(wsrc.len)
    \/ WriteDone
    \/ pc = "poll" /\ Produce(0, <<x00>>, 1)
    \/ pc = "poll" /\ Command(NL, 1)
    \/ \E x \in {0, CTL} : Appear(x)
    \/ Tick(IdleHorizon)

SpecIdle == InitIdle /\ [][NextIdle]_vars

\* ------------------------------------------------------------------ C11
\* C11: no iteration of the running loop ends with the output interval
\* elapsed since the last tick (or with no tick made yet) unless it has
\* just made the tick: whether or not a source was ready, and whether or
\* not any FIFO could be opened.
C11_TickEveryIteration ==
    [][(pc # "loop" /\ pc' = "loop" /\ running' /\ pc \notin {"write", "wpoll"})
          => ~Due']_vars

\* ================================================================= sink
\* The main loop with one input whose producer sends whole frames, a
\* testcard or none, and a stdout that takes any part of a frame, reports
\* would-block, or fails; SIGINT or SIGTERM may arrive at any moment.
\* last clock reading of these runs
SinkHorizon == 4

InitSink ==
    /\ \E tc \in Testcards : Start(1, tc, 1, {0})
    /\ pc = "loop"
    /\ arg = << >> /\ res = NoFrame

NextSink ==
    \/ LoopPoll
    \/ PollReturn
    \/ PollInterrupted
    \/ DispatchInput
    \/ DispatchDone
    \/ DrainTop
    \/ pc = "drain_read" /\ DrainRead(Len(pipe[cur]))
    \/ DrainBreak
    \/ DrainScan
    \/ OutputSkip
    \/ OutputNone
    \/ OutputEmit
    \/ \E w \in 1..Len(Deref(wsrc)) : WriteSome(w)
    \/ WriteDone
    \/ WriteAgain
    \/ WPollReady
    \/ WPollTimeout
    \/ WPollInterrupted
    \/ WriteError
    \/ Cleanup
    \/ Signal
    \/ pc = "poll" /\ Produce(0, SomeFrame, Len(SomeFrame))
    \/ Tick(SinkHorizon)

SpecSink == InitSink /\ [][NextSink]_vars

\* write_stdout is running
Emitting == pc \in {"write", "wpoll"}

\* ------------------------------------------------------------------ C12
\* C12: an emit that ends before the whole frame is written (a write error
\* other than would-block, or a wait for writability that times out) is
\* reported as failed and sets the stop flag; after a reported failure no
\* frame is emitted and no byte written, the loop does nothing but leave
\* through the cleanup, which closes every descriptor and frees every
\* buffer; a would-block that resolves within the wait goes back to the
\* write with nothing reported, and an emit that wrote the whole frame
\* reports no failure.
C12_WriteFailureStops ==
    /\ [](failed => ~running /\ pc \in {"loop", "done"})
    /\ []((failed /\ pc = "done") =>
             /\ \A i \in Inputs : ~fd[i]
             /\ ~ctl_fd
             /\ heap = {})
    /\ [][(Emitting /\ pc' = "loop" /\ total < wsrc.len)
             => (failed' /\ ~running')]_vars
    /\ [][(Emitting /\ pc' = "loop" /\ total >= wsrc.len)
             => (failed' = failed /\ running' = running)]_vars
    /\ [][(pc = "wpoll" /\ pc' = "write")
             => (failed' = failed /\ running' = running
                 /\ total' = total /\ wsrc' = wsrc)]_vars
    /\ [][failed => (emits' = emits /\ sent' = sent
                     /\ (pc' # pc => pc' = "done"))]_vars

\* a frame was emitted, a later emit failed with part of its frame written,
\* and the program has left through the cleanup
C12_Witness ==
    /\ failed /\ pc = "done"
    /\ emits >= 2
    /\ Len(sent) > 0
    /\ heap = {} /\ \A i \in Inputs : ~fd[i]

\* ------------------------------------------------------------------ C13
\* C13: when the program has ended, its exit status is non-zero if the loop
\* stopped on a failed emit, and zero if it stopped on SIGINT or SIGTERM
\* with no emit failed.
C13_ExitStatus ==
    pc = "done" =>
        /\ failed => exit_status # 0
        /\ ~failed => exit_status = 0

\* ====================================================== selection state
\* The main loop with one input, a loaded testcard, a producer of whole
\* frames and a command source that writes lines, well-formed or not.
\* last clock reading of these runs
KeepHorizon == 4

KeepLines ==
    {S_source \o <<"0">> \o NL, S_testcard \o NL, S_auto \o NL,
     S_source \o <<"x">> \o NL, S_source \o <<"1">> \o NL}

InitKeep ==
    /\ Start(1, <<xFF, xD8, x00, x00, x00, xFF, xD9>>, 1, {0, CTL})
    /\ pc = "loop"
    /\ arg = << >> /\ res = NoFrame

NextKeep ==
    \/ LoopPoll
    \/ PollReturn
    \/ DispatchInput
    \/ DispatchCtl
    \/ DispatchDone
    \/ DrainTop
    \/ pc = "drain_read" /\ DrainRead(Len(pipe[cur]))
    \/ DrainBreak
    \/ DrainScan
    \/ CtlTop
    \/ CtlRead(Len(ctl_pipe))
    \/ CtlBreak
    \/ CtlLines
    \/ OutputSkip
    \/ OutputEmit
    \/ WriteSome(wsrc.len)
    \/ WriteDone
    \/ pc = "poll" /\ Produce(0, SomeFrame, Len(SomeFrame))
    \/ \E l \in KeepLines : pc = "poll" /\ Command(l, Len(S_testcard \o NL))
    \/ Tick(KeepHorizon)

SpecKeep == InitKeep /\ [][NextKeep]_vars

\* the complete (newline-terminated) lines of buf
RECURSIVE CompleteLines(_)
CompleteLines(buf) ==
    LET nl == FirstNL(buf, 1) IN
    IF nl = 0 THEN {}
    ELSE {Take(buf, nl - 1)} \cup CompleteLines(Drop(buf, nl))

\* ------------------------------------------------------------------ C14
\* C14: the mode and the selected index change only in the step that
\* processes the received control lines, and only to the state that a valid
\* command among those lines (`source <int>` with the integer in [0, N),
\* `testcard` or `auto`) asks for: drains, extraction, frames going stale,
\* choose_frame, ticks and emits leave them as they are.
C14_OnlyCommands ==
    [][(mode' # mode \/ selected' # selected) =>
          /\ pc = "ctl_lines"
          /\ \E l \in CompleteLines(ctl_buf) :
                 CommandOf(l) = [mode |-> mode', selected |-> selected']]_vars

\* the same with the lines taken as process_ctl_line takes them
C14_OnlyAcceptedLines ==
    [][(mode' # mode \/ selected' # selected) =>
          /\ pc = "ctl_lines"
          /\ \E l \in CompleteLines(ctl_buf) :
                 \E st \in {[mode |-> m, selected |-> -1] :
                                m \in {"MODE_AUTO", "MODE_TESTCARD"}} :
                     process_ctl_line(st, l) =
                         [mode |-> mode', selected |-> selected']]_vars

\* ------------------------------------------------------------------ C15
\* f is a complete, well-delimited frame within the size bound
WellDelimited(f) ==
    /\ Len(f) >= 4
    /\ Len(f) <= MAX_FRAME_SIZE
    /\ IsSOI(f, 0)
    /\ IsEOI(f, Len(f) - 2)

\* f is a contiguous run of the bytes of buf
RunOf(f, buf) ==
    \E k \in 0..(Len(buf) - Len(f)) : SubSeq(buf, k + 1, k + Len(f)) = f

\* C15: a cached frame that is present begins with the start delimiter,
\* ends with the end delimiter and is no longer than MAX_FRAME_SIZE; the
\* cache changes only in the extraction step of that input's drain, to a
\* frame that is a contiguous run of the accumulation buffer at that moment,
\* never to nothing and never to a mix of old and new bytes; its timestamp
\* changes only there, to the clock reading of that moment, and never
\* decreases.
C15_CachedFrame ==
    /\ [](\A i \in Inputs :
            /\ Len(frame[i]) > 0 => WellDelimited(frame[i])
            /\ frame_time[i] <= now)
    /\ [][\A i \in Inputs :
            /\ frame_time'[i] >= frame_time[i]
            /\ (frame'[i] # frame[i] \/ frame_time'[i] # frame_time[i]) =>
                  /\ pc = "drain_scan" /\ cur = i
                  /\ WellDelimited(frame'[i])
                  /\ RunOf(frame'[i], read_buf[i])
                  /\ frame_time'[i] = now]_vars

\* a frame of the largest size was cached by the drain call that has just
\* returned, and bytes that follow it are left in the buffer
C15_Witness ==
    /\ pc = "dispatch"
    /\ Len(frame[0]) = MAX_FRAME_SIZE
    /\ frame[0] # SomeFrame
    /\ frame_time[0] = now
    /\ read_buf[0] # << >>

\* ------------------------------------------------------------------ C16
\* the frames an emit can have chosen: an input's cached frame or the
\* testcard
Emittable == {frame[i] : i \in Inputs} \cup {testcard}

\* C16: at every boundary between two iterations of the loop, the bytes
\* written to stdout during the iteration that ends are either none or
\* exactly one whole frame, an input's cached frame or the testcard: the
\* stream, which is those bytes one iteration after the other, is then
\* whole frames back to back, none truncated, whatever the partial writes
\* and the would-block retries.
C16_WholeFrames ==
    pc = "loop" => (sent = << >> \/ sent \in Emittable)

\* C16, amended: the same at the boundaries reached with no emit reported as
\* failed; while an emit is under way the bytes written are the first bytes
\* of its frame, in order; and an emit that fails leaves at the boundary a
\* proper prefix of its frame, possibly empty, after which nothing is
\* written.
C16_WholeFramesUnlessFailed ==
    /\ (pc = "loop" /\ ~failed) => (sent = << >> \/ sent \in Emittable)
    /\ Emitting => (total <= wsrc.len /\ sent = Take(Deref(wsrc), total))
    /\ failed => \E f \in Emittable :
                     Len(sent) < Len(f) /\ sent = Take(f, Len(sent))

\* stdout reports would-block after taking a part of the frame
C16_Witness ==
    /\ pc = "wpoll"
    /\ total > 0 /\ total < wsrc.len
    /\ sent = Take(Deref(wsrc), total)
    /\ emits >= 2

\* ======================================================== control pipe
\* drain_ctl on its own, with two inputs: the command source sends lines
\* one after the other (arg is everything it has sent), the reads split
\* the bytes in every way, and main calls drain_ctl whenever poll reports
\* the pipe readable, rightly or not.
\* most characters the command source sends in a run
CtlStreamLen == 18

SentLines ==
    {S_auto \o NL, S_testcard \o NL, S_source \o <<"0">> \o NL,
     S_source \o <<"1">> \o NL}

\* the characters of arg after its last newline: the line being written
Unfinished ==
    Drop(arg, Max({0} \cup {i \in 1..Len(arg) : arg[i] = "\n"}))

\* the command source writes the next j characters of line l into the
\* control FIFO: a whole line, or a line in several writes
Send(l, j) ==
    /\ Len(Unfinished) < Len(l)
    /\ Take(l, Len(Unfinished)) = Unfinished
    /\ j >= 1 /\ Len(Unfinished) + j <= Len(l)
    /\ Len(arg) + j <= CtlStreamLen
    /\ LET piece == SubSeq(l, Len(Unfinished) + 1, Len(Unfinished) + j) IN
       /\ ctl_pipe' = ctl_pipe \o piece
       /\ arg' = arg \o piece
    /\ UNCHANGED <<cfgv, auxv, selv, fdv, inpv, ctl_buf, running, pc,
                   last_out, locv, exit_status, now, deadline, pipe, avail,
                   emits, res>>

InitCtl ==
    /\ num_inputs = 2
    /\ testcard = << >>
    /\ mode = "MODE_AUTO" /\ selected = -1
    /\ fd = [i \in 0..1 |-> TRUE]
    /\ read_buf = [i \in 0..1 |-> << >>]
    /\ frame = [i \in 0..1 |-> << >>]
    /\ frame_time = [i \in 0..1 |-> 0]
    /\ now = 1
    /\ pipe = [i \in 0..1 |-> << >>]
    /\ ctl_fd = TRUE /\ ctl_buf = << >> /\ ctl_pipe = << >>
    /\ running = TRUE /\ pc = "dispatch" /\ last_out = 0
    /\ revents = {} /\ cur = 0 /\ space = 0 /\ wsrc = NullPtr
    /\ total = 0 /\ exit_status = -1 /\ deadline = 0
    /\ avail = {0, 1, CTL} /\ emits = 0 /\ arg = << >> /\ res = NoFrame
    /\ heap = Allocated(num_inputs, testcard)
    /\ sent = << >> /\ failed = FALSE

NextCtl ==
    \/ \E l \in SentLines : \E j \in 1..Len(l) : Send(l, j)
    \/ Wake(CTL)
    \/ DispatchCtl
    \/ CtlTop
    \/ \E n \in 1..(CTL_BUF_SIZE - 1) : CtlRead(n)
    \/ CtlBreak
    \/ CtlLines

SpecCtl == InitCtl /\ [][NextCtl]_vars

\* ------------------------------------------------------------------ C17
\* C17: the control buffer never holds more than CTL_BUF_SIZE - 1
\* characters, and a step of drain_ctl that empties the buffer to make room
\* discards no complete (newline-terminated) line: only the characters of
\* an unterminated line.
C17_ResetKeepsLines ==
    /\ [](Len(ctl_buf) <= CTL_BUF_SIZE - 1)
    /\ [][(pc = "ctl_top" /\ ctl_buf' # ctl_buf)
             => CompleteLines(ctl_buf) = {}]_vars


\* ------------------------------------------------------------------ C20
\* The command source of C20: it writes only while the bytes pending
\* (held in ctl_buf or still in the FIFO) stay below the buffer's capacity.
NextChunk ==
    \/ \E l \in SentLines : \E j \in 1..Len(l) :
          /\ Len(ctl_buf) + Len(ctl_pipe) + j < CTL_BUF_SIZE - 1
          /\ Send(l, j)
    \/ Wake(CTL)
    \/ DispatchCtl
    \/ CtlTop
    \/ \E n \in 1..(CTL_BUF_SIZE - 1) : CtlRead(n)
    \/ CtlBreak
    \/ CtlLines

SpecChunk == InitCtl /\ [][NextChunk]_vars

\* the bytes read from the control FIFO so far
Received == Take(arg, Len(arg) - Len(ctl_pipe))

\* the bytes of the lines processed so far, if none was lost or repeated
Processed == Take(Received, Len(Received) - Len(ctl_buf))

\* C20: while the pending bytes never fill the control buffer, however the
\* reads and the drain_ctl calls split the stream: the bytes read are the
\* lines processed followed by the bytes held, the selection state is the
\* one process_ctl_line gives over the processed lines in order, and when
\* drain_ctl has returned the state and the retained tail are those of one
\* read of the whole stream.
C20_ChunkingIndependent ==
    LET start == [mode |-> "MODE_AUTO", selected |-> -1]
        done == ProcessLines(start, Processed)
        whole == ProcessLines(start, Received)
    IN /\ Len(ctl_buf) <= Len(Received)
       /\ Received = Processed \o ctl_buf
       /\ done.rest = << >>
       /\ done.st = [mode |-> mode, selected |-> selected]
       /\ pc = "dispatch" =>
             /\ whole.st = [mode |-> mode, selected |-> selected]
             /\ whole.rest = ctl_buf

\* drain_ctl has returned twice at least, the first time holding the start
\* of a line that later bytes completed into "source 1", and again holds an
\* unterminated tail
C20_Witness ==
    /\ pc = "dispatch"
    /\ mode = "MODE_SOURCE" /\ selected = 1
    /\ ctl_buf # << >>
    /\ Len(Processed) >= 2 * Len(S_auto \o NL)


\* ======================================================= frame streams
\* drain on its own with a producer that writes whole frames and filler
\* bytes, any number of them between two reads (arg is everything it has
\* written), reads of every size, and a call of drain whenever poll reports
\* the input readable.
\* most bytes the producer writes in a run
StreamLen == 14
\* most bytes the FIFO holds
FifoCap == 10

StreamItems == {SomeFrame, <<x00>>, <<x00, x00, x00>>}

\* the producer writes an item into FIFO i
Deliver(i, bytes) ==
    /\ Len(arg) + Len(bytes) <= StreamLen
    /\ Len(pipe[i]) + Len(bytes) <= FifoCap
    /\ pipe' = [pipe EXCEPT ![i] = @ \o bytes]
    /\ arg' = arg \o bytes
    /\ UNCHANGED <<cfgv, auxv, selv, fdv, inpv, ctl_buf, running, pc,
                   last_out, locv, exit_status, now, deadline, ctl_pipe,
                   avail, emits, res>>

NextStream ==
    \/ \E b \in StreamItems : Deliver(0, b)
    \/ Wake(0)
    \/ DispatchInput
    \/ DrainTop
    \/ \E n \in 1..READ_BUF_SIZE : DrainRead(n)
    \/ DrainBreak
    \/ DrainScan

SpecStream == InitDrain /\ [][NextStream]_vars

\* the bytes input i has read from its FIFO so far
Delivered(i) == Take(arg, Len(arg) - Len(pipe[i]))

\* ------------------------------------------------------------------ C19
\* C19: whenever drain has returned, if the bytes the input has received
\* hold a complete frame within the size bound, the cached frame is the
\* last such frame: eviction never costs a frame that has fully arrived.
C19_LastDeliveredCached ==
    pc = "dispatch" =>
        \A i \in Inputs :
            LET r == LastBoundedRegion(Delivered(i)) IN
            r # NoFrame =>
                frame[i] = SubSeq(Delivered(i), r.soi + 1, r.soi + r.len)


\* ============================================================ progress
\* The loop with one input, its producer and the sink, under fairness: the
\* process is never starved, and time passes while it waits.  The producer,
\* the sink and the signals are free: the producer may write whenever the
\* FIFO has room, also while drain is reading.
\* last clock reading of these runs
LiveHorizon == 4

\* the steps the process takes by itself once it is scheduled or the call
\* it is in returns
ProcessStep ==
    \/ LoopPoll
    \/ PollReturn
    \/ DispatchInput
    \/ DispatchDone
    \/ DrainTop
    \/ \E n \in 1..READ_BUF_SIZE : DrainRead(n)
    \/ DrainBreak
    \/ DrainScan
    \/ OutputSkip
    \/ OutputNone
    \/ OutputEmit
    \/ \E w \in 1..Len(Deref(wsrc)) : WriteSome(w)
    \/ WriteDone
    \/ WriteAgain
    \/ WPollTimeout
    \/ WriteError
    \/ Cleanup

NextLive ==
    \/ ProcessStep
    \/ PollInterrupted
    \/ WPollReady
    \/ WPollInterrupted
    \/ Signal
    \/ Produce(0, SomeFrame, Len(SomeFrame))
    \/ Tick(LiveHorizon)

SpecLive ==
    /\ InitSink
    /\ [][NextLive]_vars
    /\ WF_vars(ProcessStep)
    /\ WF_vars(Tick(LiveHorizon))

\* the process is inside drain
Draining == pc \in {"drain_top", "drain_read", "drain_scan"}

\* ------------------------------------------------------------------ C18
\* C18: within the time of the run, every call of drain returns to the
\* dispatch loop, every call of write_stdout returns to the main loop, and
\* once the stop flag is set the process leaves the loop and ends with its
\* descriptors closed and its buffers freed.
C18_EveryCallReturns ==
    /\ Draining ~> (pc = "dispatch")
    /\ Emitting ~> (pc = "loop" \/ now = LiveHorizon)
    /\ ~running ~>
          \/ /\ pc = "done" /\ heap = {}
             /\ ~ctl_fd /\ \A i \in Inputs : ~fd[i]
          \/ now = LiveHorizon

=============================================================================
